---------------------------- MODULE Spec2Model ----------------------------
(***************************************************************************)
(* A model of doc_classification.py: the file inventory, the OCR pool, the *)
(* text normaliser and its parallel variant, the dictionary / bag-of-words *)
(* builder, the topic inspection with its driver loop, and the similarity  *)
(* report.  Strings are sequences of one-character strings, so that        *)
(* suffix tests, slices and splits are computed as the code computes them. *)
(* Every function of the script has its own specification; the variables   *)
(* of the other functions stay at their idle values.                       *)
(***************************************************************************)
EXTENDS Integers, Sequences, FiniteSets, TLC

VARIABLES
    \* doc_cnts_paths
    walk, tif_cnt, xml_cnt, txt_cnt, misc_cnt,
    tif_paths, xml_paths, txt_paths, misc_paths, pc_inv,
    \* parallelize_OCR / shell_tesseract
    ocr_tif_paths, taskqueue, w_task, w_done, fs, ocr_writes, task, pc_ocr,
    \* lemmatize_string
    doc, stop_words, tokens, ls_return, pc_ls,
    \* parallel_corpus_lemmatization / lemmatize_corpus
    par_txt_paths, cores, n, txt_paths_chunks, p_queue, p_task, p_results,
    par_return, pc_par,
    \* bow_and_dict
    lemmatized_corpus, no_below, no_above, doc_tokens, token2id, dfs,
    num_docs, bow_corpus, pc_bow,
    \* inspect_classification and the loop of __main__ that calls it
    ins_txt_paths, num_topics, doc_topics, topic, topic_arg, top_topics_lst,
    file_num, next_topic, inspection_lst, ins_return, d_topic, call_no,
    first_list, insp_cnt, pc_ins,
    \* doc_sim
    ds_txt_paths, ds_path, txt_idx, sim, argsort, desc_idx_5, sim_tif_paths,
    show_pos, pc_sim

invVars == <<walk, tif_cnt, xml_cnt, txt_cnt, misc_cnt,
             tif_paths, xml_paths, txt_paths, misc_paths, pc_inv>>

ocrVars == <<ocr_tif_paths, taskqueue, w_task, w_done, fs, ocr_writes,
             task, pc_ocr>>

lsVars == <<doc, stop_words, tokens, ls_return, pc_ls>>

parVars == <<par_txt_paths, cores, n, txt_paths_chunks, p_queue, p_task,
             p_results, par_return, pc_par>>

bowVars == <<lemmatized_corpus, no_below, no_above, doc_tokens, token2id,
             dfs, num_docs, bow_corpus, pc_bow>>

insVars == <<ins_txt_paths, num_topics, doc_topics, topic, topic_arg,
             top_topics_lst, file_num, next_topic, inspection_lst,
             ins_return, d_topic, call_no, first_list, insp_cnt, pc_ins>>

simVars == <<ds_txt_paths, ds_path, txt_idx, sim, argsort, desc_idx_5,
             sim_tif_paths, show_pos, pc_sim>>

vars == <<invVars, ocrVars, lsVars, parVars, bowVars, insVars, simVars>>

notInv == <<ocrVars, lsVars, parVars, bowVars, insVars, simVars>>
notOcr == <<invVars, lsVars, parVars, bowVars, insVars, simVars>>
notLs == <<invVars, ocrVars, parVars, bowVars, insVars, simVars>>
notPar == <<invVars, ocrVars, lsVars, bowVars, insVars, simVars>>
notBow == <<invVars, ocrVars, lsVars, parVars, insVars, simVars>>
notIns == <<invVars, ocrVars, lsVars, parVars, bowVars, simVars>>
notSim == <<invVars, ocrVars, lsVars, parVars, bowVars, insVars>>

----------------------------------------------------------------------------
(* Strings *)

Range(s) == {s[i] : i \in 1..Len(s)}

\* str.endswith(suf)
EndsWith(s, suf) ==
    /\ Len(s) >= Len(suf)
    /\ SubSeq(s, Len(s) - Len(suf) + 1, Len(s)) = suf

\* s[:-k] for k > 0: the empty string when s has at most k characters
DropLast(s, k) == SubSeq(s, 1, Len(s) - k)

\* os.path.join(dirpath, file)
JoinPath(dirpath, file) == dirpath \o <<"/">> \o file

DotTif == <<".", "t", "i", "f">>
DotXml == <<".", "x", "m", "l">>
DotTxt == <<".", "t", "x", "t">>

----------------------------------------------------------------------------
(* doc_cnts_paths: lines 32-53 *)

\* the most files a walked tree holds
MaxFiles == 7

\* the files a tree may hold, as os.walk yields them: <<dirpath, file>>
TreeFiles ==
    { <<<<"d">>, <<"a", ".", "t", "i", "f">>>>,
      <<<<"d">>, <<".", "t", "i", "f">>>>,
      <<<<"e">>, <<"a", ".", "t", "i", "f">>>>,
      <<<<"d">>, <<"b", ".", "x", "m", "l">>>>,
      <<<<"e">>, <<"b", ".", "x", "m", "l">>>>,
      <<<<"d">>, <<"c", ".", "t", "x", "t">>>>,
      <<<<"d">>, <<"t", "i", "f">>>>,
      <<<<"e">>, <<"a", ".", "T", "I", "F">>>> }

InvIdle ==
    /\ walk = <<>>
    /\ tif_cnt = 0 /\ xml_cnt = 0 /\ txt_cnt = 0 /\ misc_cnt = 0
    /\ tif_paths = <<>> /\ xml_paths = <<>> /\ txt_paths = <<>>
    /\ misc_paths = <<>>
    /\ pc_inv = "idle"

InvInit ==
    /\ walk = <<>>
    /\ tif_cnt = 0 /\ xml_cnt = 0 /\ txt_cnt = 0 /\ misc_cnt = 0
    /\ tif_paths = <<>> /\ xml_paths = <<>> /\ txt_paths = <<>>
    /\ misc_paths = <<>>
    /\ pc_inv = "walking"

\* a classification that forgets the dot of the first suffix
SuffixClassNoDot(file) ==
    IF EndsWith(file, <<"t", "i", "f">>) THEN "tif"
    ELSE IF EndsWith(file, DotXml) THEN "xml"
    ELSE IF EndsWith(file, DotTxt) THEN "txt"
    ELSE "misc"

\* the if / elif / elif / else chain of lines 41-52
SuffixClass(file) ==
    IF EndsWith(file, DotTif) THEN "tif"
    ELSE IF EndsWith(file, DotXml) THEN "xml"
    ELSE IF EndsWith(file, DotTxt) THEN "txt"
    ELSE "misc"

\* one iteration of the inner loop: os.walk yields a file not yet seen
VisitFile(e) ==
    /\ pc_inv = "walking"
    /\ Len(walk) < MaxFiles
    /\ e \notin Range(walk)
    /\ walk' = Append(walk, e)
    /\ LET p == JoinPath(e[1], e[2])
           c == SuffixClass(e[2])
       IN  /\ tif_cnt'  = IF c = "tif"  THEN tif_cnt + 1  ELSE tif_cnt
           /\ tif_paths' = IF c = "tif"  THEN Append(tif_paths, p) ELSE tif_paths
           /\ xml_cnt'  = IF c = "xml"  THEN xml_cnt + 1  ELSE xml_cnt
           /\ xml_paths' = IF c = "xml"  THEN Append(xml_paths, p) ELSE xml_paths
           /\ txt_cnt'  = IF c = "txt"  THEN txt_cnt + 1  ELSE txt_cnt
           /\ txt_paths' = IF c = "txt"  THEN Append(txt_paths, p) ELSE txt_paths
           /\ misc_cnt' = IF c = "misc" THEN misc_cnt + 1 ELSE misc_cnt
           /\ misc_paths' = IF c = "misc" THEN Append(misc_paths, p) ELSE misc_paths
    /\ UNCHANGED <<pc_inv, notInv>>

\* the walk is exhausted: line 53
ReturnInventory ==
    /\ pc_inv = "walking"
    /\ pc_inv' = "returned"
    /\ UNCHANGED <<walk, tif_cnt, xml_cnt, txt_cnt, misc_cnt,
                   tif_paths, xml_paths, txt_paths, misc_paths, notInv>>

OcrIdle ==
    /\ ocr_tif_paths = <<>> /\ taskqueue = <<>>
    /\ w_task = <<>> /\ w_done = <<>>
    /\ fs = {} /\ ocr_writes = {} /\ task = <<>>
    /\ pc_ocr = "idle"

LsIdle ==
    /\ doc = <<>> /\ stop_words = {} /\ tokens = <<>>
    /\ ls_return = <<>> /\ pc_ls = "idle"

ParIdle ==
    /\ par_txt_paths = <<>> /\ cores = 0 /\ n = 0
    /\ txt_paths_chunks = <<>> /\ p_queue = <<>> /\ p_task = <<>>
    /\ p_results = <<>> /\ par_return = <<>> /\ pc_par = "idle"

BowIdle ==
    /\ lemmatized_corpus = <<>> /\ no_below = 0 /\ no_above = 0
    /\ doc_tokens = <<>> /\ token2id = <<>> /\ dfs = <<>>
    /\ num_docs = 0 /\ bow_corpus = <<>> /\ pc_bow = "idle"

InsIdle ==
    /\ ins_txt_paths = <<>> /\ num_topics = 0 /\ doc_topics = <<>>
    /\ topic = 0 /\ topic_arg = 0 /\ top_topics_lst = <<>>
    /\ file_num = 0 /\ next_topic = 0 /\ inspection_lst = <<>>
    /\ ins_return = <<>> /\ d_topic = 0 /\ call_no = 0
    /\ first_list = <<>> /\ insp_cnt = <<>> /\ pc_ins = "idle"

SimIdle ==
    /\ ds_txt_paths = <<>> /\ ds_path = <<>> /\ txt_idx = 0 /\ sim = <<>>
    /\ argsort = <<>> /\ desc_idx_5 = <<>> /\ sim_tif_paths = <<>>
    /\ show_pos = 0 /\ pc_sim = "idle"

InitInventory ==
    /\ InvInit /\ OcrIdle /\ LsIdle /\ ParIdle /\ BowIdle /\ InsIdle
    /\ SimIdle

NextInventory ==
    \/ \E e \in TreeFiles : VisitFile(e)
    \/ ReturnInventory

SpecInventory == InitInventory /\ [][NextInventory]_vars

\* the number of positions of list at which path p stands
Occurrences(list, p) == Cardinality({i \in 1..Len(list) : list[i] = p})

\* C1: when doc_cnts_paths returns, every file of the walked tree stands in
\* exactly one of the four path lists, exactly once, in the list its suffix
\* names (.tif, .xml, .txt, anything else); each count is the length of its
\* list, and the four counts sum to the number of files of the tree.
C1_InventoryPartition ==
    pc_inv = "returned" =>
        /\ \A i \in 1..Len(walk) :
             LET f == walk[i][2]
                 p == JoinPath(walk[i][1], f)
                 nt == Occurrences(tif_paths, p)
                 nx == Occurrences(xml_paths, p)
                 ns == Occurrences(txt_paths, p)
                 nm == Occurrences(misc_paths, p)
             IN  /\ nt + nx + ns + nm = 1
                 /\ nt = 1 <=> EndsWith(f, DotTif)
                 /\ nx = 1 <=> (~EndsWith(f, DotTif) /\ EndsWith(f, DotXml))
                 /\ ns = 1 <=> (/\ ~EndsWith(f, DotTif) /\ ~EndsWith(f, DotXml)
                                /\ EndsWith(f, DotTxt))
        /\ tif_cnt = Len(tif_paths) /\ xml_cnt = Len(xml_paths)
        /\ txt_cnt = Len(txt_paths) /\ misc_cnt = Len(misc_paths)
        /\ tif_cnt + xml_cnt + txt_cnt + misc_cnt = Len(walk)

\* the scenario of 3 .tif, 2 .xml, 1 .txt and 1 other file has been walked
C1_Witness ==
    /\ pc_inv = "returned"
    /\ <<tif_cnt, xml_cnt, txt_cnt, misc_cnt>> = <<3, 2, 1, 1>>
    /\ Len(tif_paths) = 3 /\ Len(xml_paths) = 2
    /\ Len(txt_paths) = 1 /\ Len(misc_paths) = 1

----------------------------------------------------------------------------
(* shell_tesseract and parallelize_OCR: lines 73-93 *)

\* the longest list of image paths handed to the pool
MaxImages == 3

\* mp.Pool(processes=4)
PoolProcesses == 4

Workers == 1..PoolProcesses

\* the paths doc_cnts_paths can put in tif_paths, and one more
ImagePaths ==
    {JoinPath(e[1], e[2]) : e \in {t \in TreeFiles : SuffixClass(t[2]) = "tif"}}
    \cup {<<"e", "/", "b", ".", "t", "i", "f">>}

\* the lists of at most max distinct elements of S
RECURSIVE DistinctSeqs(_, _)
DistinctSeqs(S, max) ==
    IF max = 0 THEN {<<>>}
    ELSE LET shorter == DistinctSeqs(S, max - 1)
         IN  shorter \cup
             {Append(q, x) : <<q, x>> \in
                 {<<q, x>> \in shorter \X S : x \notin Range(q)}}

\* the output file keeping all but the last three characters of the path
TesseractOutputKeepsDot(path) == DropLast(path, 3) \o DotTxt

\* the file tesseract writes for ['tesseract', path, path[:-4]]: the output
\* base with the .txt extension tesseract adds
TesseractOutput(path) == DropLast(path, 4) \o DotTxt

\* Pool.map's chunk size: divmod(len(iterable), len(pool) * 4), rounded up
MapChunkSize(len) ==
    IF len = 0 THEN 0
    ELSE LET q == len \div (PoolProcesses * 4)
             r == len % (PoolProcesses * 4)
         IN  IF r # 0 THEN q + 1 ELSE q

\* the number of task batches Pool.map puts on the task queue
MapBatches(len) ==
    IF len = 0 THEN 0
    ELSE LET c == MapChunkSize(len)
         IN  (len + c - 1) \div c

\* the positions of the iterable that batch b (from 1) holds
BatchItems(len, b) ==
    LET c == MapChunkSize(len)
    IN  {i \in 1..len : (b - 1) * c < i /\ i <= b * c}

OcrInit ==
    /\ ocr_tif_paths \in DistinctSeqs(ImagePaths, MaxImages)
    /\ taskqueue = <<>>
    /\ w_task = [w \in Workers |-> 0]
    /\ w_done = [w \in Workers |-> 0]
    /\ fs = Range(ocr_tif_paths)
    /\ ocr_writes = {}
    /\ task = <<>>
    /\ pc_ocr = "start"

\* pool.map(shell_tesseract, tif_paths) puts its batches on the task queue
OcrMap ==
    /\ pc_ocr = "start"
    /\ taskqueue' = [b \in 1..MapBatches(Len(ocr_tif_paths)) |-> b]
    /\ task' = [i \in 1..Len(ocr_tif_paths) |-> "pending"]
    /\ pc_ocr' = "mapping"
    /\ UNCHANGED <<ocr_tif_paths, w_task, w_done, fs, ocr_writes, notOcr>>

\* an idle worker takes the next batch from the queue
WorkerGet(w) ==
    /\ pc_ocr = "mapping"
    /\ w_task[w] = 0
    /\ taskqueue # <<>>
    /\ w_task' = [w_task EXCEPT ![w] = Head(taskqueue)]
    /\ w_done' = [w_done EXCEPT ![w] = 0]
    /\ taskqueue' = Tail(taskqueue)
    /\ UNCHANGED <<ocr_tif_paths, fs, ocr_writes, task, pc_ocr, notOcr>>

\* the worker calls shell_tesseract on the next path of its batch
WorkerCall(w) ==
    /\ pc_ocr = "mapping"
    /\ w_task[w] # 0
    /\ LET items == BatchItems(Len(ocr_tif_paths), w_task[w])
           first == CHOOSE i \in items : \A j \in items : i <= j
           i == first + w_done[w]
       IN  /\ i \in items
           /\ fs' = fs \cup {TesseractOutput(ocr_tif_paths[i])}
           /\ ocr_writes' = ocr_writes \cup
                  {<<TesseractOutput(ocr_tif_paths[i]), w, i>>}
           /\ w_done' = [w_done EXCEPT ![w] = w_done[w] + 1]
    /\ UNCHANGED <<ocr_tif_paths, taskqueue, w_task, task, pc_ocr, notOcr>>

\* the batch is finished: its results (None each) are stored at their places
WorkerPut(w) ==
    /\ pc_ocr = "mapping"
    /\ w_task[w] # 0
    /\ LET items == BatchItems(Len(ocr_tif_paths), w_task[w])
       IN  /\ w_done[w] = Cardinality(items)
           /\ task' = [i \in 1..Len(task) |->
                          IF i \in items THEN "None" ELSE task[i]]
    /\ w_task' = [w_task EXCEPT ![w] = 0]
    /\ w_done' = [w_done EXCEPT ![w] = 0]
    /\ UNCHANGED <<ocr_tif_paths, taskqueue, fs, ocr_writes, pc_ocr, notOcr>>

\* pool.map returns once every result is in
OcrReturn ==
    /\ pc_ocr = "mapping"
    /\ \A i \in 1..Len(task) : task[i] = "None"
    /\ pc_ocr' = "returned"
    /\ UNCHANGED <<ocr_tif_paths, taskqueue, w_task, w_done, fs, ocr_writes,
                   task, notOcr>>

InitOCR ==
    /\ OcrInit /\ InvIdle /\ LsIdle /\ ParIdle /\ BowIdle /\ InsIdle
    /\ SimIdle

NextOCR ==
    \/ OcrMap
    \/ \E w \in Workers : WorkerGet(w)
    \/ \E w \in Workers : WorkerCall(w)
    \/ \E w \in Workers : WorkerPut(w)
    \/ OcrReturn

SpecOCR == InitOCR /\ [][NextOCR]_vars

\* the files the sequential loop over the first upto paths leaves
RECURSIVE SequentialOcrFiles(_, _)
SequentialOcrFiles(paths, upto) ==
    IF upto = 0 THEN Range(paths)
    ELSE SequentialOcrFiles(paths, upto - 1)
             \cup {DropLast(paths[upto], 4) \o DotTxt}

----------------------------------------------------------------------------
(* lemmatize_string: lines 96-113 *)

\* the longest raw document
MaxDocLen == 4

\* string.punctuation; the grave accent is written by its name
Punctuation ==
    {"!", "\"", "#", "$", "%", "&", "'", "(", ")", "*", "+", ",", "-", ".",
     "/", ":", ";", "<", "=", ">", "?", "@", "[", "\\", "]", "^", "_", "grave",
     "{", "|", "}", "~"}

\* the characters str.split() splits at
Whitespace == {" ", "\n", "\t"}

\* the characters of the raw documents
DocAlphabet == {"I", "a", ".", " ", "\n"}

\* the strings of at most max characters of S
RECURSIVE Strings(_, _)
Strings(S, max) ==
    IF max = 0 THEN {<<>>}
    ELSE LET shorter == Strings(S, max - 1)
         IN  shorter \cup {Append(q, c) : <<q, c>> \in shorter \X S}

\* the stop-word sets handed to lemmatize_string
StopWordSets == { {}, {<<"a">>}, {<<"i">>, <<"a">>, <<"b", "e">>} }

\* str.translate(None, deletechars)
Translate(s, deletechars) == SelectSeq(s, LAMBDA c : c \notin deletechars)

\* str.replace('\n', ' ')
ReplaceNewline(s) == [i \in 1..Len(s) |-> IF s[i] = "\n" THEN " " ELSE s[i]]

\* str.split(): the maximal runs of characters that are not whitespace
RECURSIVE SplitFrom(_, _, _, _)
SplitFrom(s, i, cur, out) ==
    IF i > Len(s)
    THEN IF cur = <<>> THEN out ELSE Append(out, cur)
    ELSE IF s[i] \in Whitespace
         THEN SplitFrom(s, i + 1, <<>>,
                        IF cur = <<>> THEN out ELSE Append(out, cur))
         ELSE SplitFrom(s, i + 1, Append(cur, s[i]), out)

Split(s) == SplitFrom(s, 1, <<>>, <<>>)

\* ' '.join(words)
RECURSIVE JoinSpace(_)
JoinSpace(words) ==
    IF words = <<>> THEN <<>>
    ELSE IF Len(words) = 1 THEN words[1]
    ELSE words[1] \o <<" ">> \o JoinSpace(Tail(words))

\* str.lower() of one character
LowerChar(c) ==
    CASE c = "I" -> "i"
      [] c = "P" -> "p"
      [] c = "R" -> "r"
      [] c = "O" -> "o"
      [] c = "N" -> "n"
      [] OTHER -> c

\* str.lower()
Lower(s) == [i \in 1..Len(s) |-> LowerChar(s[i])]

\* line 105: strip punctuation, turn newlines to spaces, collapse whitespace
CleanDoc(d) == JoinSpace(Split(ReplaceNewline(Translate(d, Punctuation))))

\* the lemmas the NLP pipeline may give a token: the token itself, the lemma
\* of a verb form, and spaCy's lemma of a pronoun
LemmasOf(text) ==
    {text, <<"b", "e">>, <<"-", "P", "R", "O", "N", "-">>}

\* the stop-word filter of line 113
KeepToken(w, stop) == w \notin stop

LsInit ==
    /\ doc \in Strings(DocAlphabet, MaxDocLen)
    /\ stop_words \in StopWordSets
    /\ tokens = <<>>
    /\ ls_return = <<>>
    /\ pc_ls = "start"

\* line 105
LsClean ==
    /\ pc_ls = "start"
    /\ doc' = CleanDoc(doc)
    /\ pc_ls' = "cleaned"
    /\ UNCHANGED <<stop_words, tokens, ls_return, notLs>>

\* line 108: the pipeline splits the text into tokens and gives each a lemma
LsNlp ==
    /\ pc_ls = "cleaned"
    /\ LET words == Split(doc)
       IN  \E lemma \in [1..Len(words) -> UNION {LemmasOf(words[i]) :
                                                  i \in 1..Len(words)}] :
              /\ \A i \in 1..Len(words) : lemma[i] \in LemmasOf(words[i])
              /\ doc' = [i \in 1..Len(words) |->
                            [text |-> words[i], lemma_ |-> lemma[i]]]
    /\ pc_ls' = "parsed"
    /\ UNCHANGED <<stop_words, tokens, ls_return, notLs>>

\* line 111
LsLower ==
    /\ pc_ls = "parsed"
    /\ tokens' = [i \in 1..Len(doc) |-> Lower(doc[i].lemma_)]
    /\ pc_ls' = "lemmatized"
    /\ UNCHANGED <<doc, stop_words, ls_return, notLs>>

\* line 113
LsReturn ==
    /\ pc_ls = "lemmatized"
    /\ ls_return' = JoinSpace(SelectSeq(tokens,
                                        LAMBDA w : KeepToken(w, stop_words)))
    /\ pc_ls' = "returned"
    /\ UNCHANGED <<doc, stop_words, tokens, notLs>>

InitLemmatize ==
    /\ LsInit /\ InvIdle /\ OcrIdle /\ ParIdle /\ BowIdle /\ InsIdle
    /\ SimIdle

NextLemmatize == LsClean \/ LsNlp \/ LsLower \/ LsReturn

SpecLemmatize == InitLemmatize /\ [][NextLemmatize]_vars

\* C4: the string lemmatize_string returns holds no punctuation character,
\* and none of its space-separated tokens is in the stop-word set, whatever
\* lemma the pipeline gave each token.
C4_NoPunctuationNoStopWords ==
    pc_ls = "returned" =>
        /\ \A i \in 1..Len(ls_return) : ls_return[i] \notin Punctuation
        /\ \A w \in Range(Split(ls_return)) : w \notin stop_words

\* the part of C4 that the code keeps: no returned token is a stop word
C4_NoStopWords ==
    pc_ls = "returned" =>
        \A w \in Range(Split(ls_return)) : w \notin stop_words

----------------------------------------------------------------------------
(* lemmatize_corpus and parallel_corpus_lemmatization: lines 116-146 *)

\* the longest list of text paths
MaxTexts == 4

\* the most cores mp.cpu_count() reports
MaxCores == 3

\* the text files of the corpus
TextPaths ==
    { <<"d", "/", "c", ".", "t", "x", "t">>,
      <<"e", "/", "c", ".", "t", "x", "t">> }

\* what open(path).read() gives
FileText(path) ==
    IF path = <<"d", "/", "c", ".", "t", "x", "t">>
    THEN <<"I", ".", "\n", "a", "I">>
    ELSE <<"a", " ", "I", "a", ".">>

\* gensim's STOPWORDS, as far as the documents' words go
STOPWORDS == {<<"a">>, <<"i">>, <<"b", "e">>}

\* the lemma the loaded pipeline gives a token: a pronoun's is -PRON-
SpacyLemma(text) ==
    IF text = <<"I">> THEN <<"-", "P", "R", "O", "N", "-">> ELSE text

\* lemmatize_string with the loaded pipeline: lines 105-113
LemmatizeString(d, stop) ==
    LET words == Split(CleanDoc(d))
        lemmas == [i \in 1..Len(words) |-> Lower(SpacyLemma(words[i]))]
    IN  JoinSpace(SelectSeq(lemmas, LAMBDA w : KeepToken(w, stop)))

\* lemmatize_corpus: lines 122-129
LemmatizeCorpus(paths) ==
    [i \in 1..Len(paths) |-> LemmatizeString(FileText(paths[i]), STOPWORDS)]

\* the chunks of line 142 for a chunk length of at least 1:
\* txt_paths[i:i + len] for i in xrange(0, len(txt_paths), len)
ChunksOf(paths, len) ==
    [k \in 1..((Len(paths) + len - 1) \div len) |->
        SubSeq(paths, (k - 1) * len + 1,
               IF k * len < Len(paths) THEN k * len ELSE Len(paths))]

\* chain(*lists)
RECURSIVE Chain(_)
Chain(lists) ==
    IF lists = <<>> THEN <<>> ELSE Head(lists) \o Chain(Tail(lists))

ParInit ==
    /\ par_txt_paths \in Strings(TextPaths, MaxTexts)
    /\ cores \in 1..MaxCores
    /\ n = 0
    /\ txt_paths_chunks = <<>>
    /\ p_queue = <<>>
    /\ p_task = [w \in Workers |-> 0]
    /\ p_results = <<>>
    /\ par_return = <<>>
    /\ pc_par = "start"

\* lines 139-142: the chunk length, and the chunks; xrange raises ValueError
\* for a step of zero
ParChunk ==
    /\ pc_par = "start"
    /\ n' = Len(par_txt_paths) \div cores
    /\ IF n' = 0
       THEN /\ pc_par' = "raised"
            /\ par_return' = "ValueError"
            /\ UNCHANGED txt_paths_chunks
       ELSE /\ txt_paths_chunks' = ChunksOf(par_txt_paths, n')
            /\ pc_par' = "chunked"
            /\ UNCHANGED par_return
    /\ UNCHANGED <<par_txt_paths, cores, p_queue, p_task, p_results, notPar>>

\* line 146: pool.map(lemmatize_corpus, txt_paths_chunks) queues its batches
ParMap ==
    /\ pc_par = "chunked"
    /\ p_queue' = [b \in 1..MapBatches(Len(txt_paths_chunks)) |-> b]
    /\ p_results' = [k \in 1..Len(txt_paths_chunks) |->
                        [ready |-> FALSE, value |-> <<>>]]
    /\ pc_par' = "mapping"
    /\ UNCHANGED <<par_txt_paths, cores, n, txt_paths_chunks, p_task,
                   par_return, notPar>>

\* an idle worker takes the next batch
ParWorkerGet(w) ==
    /\ pc_par = "mapping"
    /\ p_task[w] = 0
    /\ p_queue # <<>>
    /\ p_task' = [p_task EXCEPT ![w] = Head(p_queue)]
    /\ p_queue' = Tail(p_queue)
    /\ UNCHANGED <<par_txt_paths, cores, n, txt_paths_chunks, p_results,
                   par_return, pc_par, notPar>>

\* the worker has run lemmatize_corpus on the chunks of its batch; the
\* results are stored at the chunks' places
ParWorkerPut(w) ==
    /\ pc_par = "mapping"
    /\ p_task[w] # 0
    /\ p_results' = [k \in 1..Len(p_results) |->
                        IF k \in BatchItems(Len(txt_paths_chunks), p_task[w])
                        THEN [ready |-> TRUE,
                              value |-> LemmatizeCorpus(txt_paths_chunks[k])]
                        ELSE p_results[k]]
    /\ p_task' = [p_task EXCEPT ![w] = 0]
    /\ UNCHANGED <<par_txt_paths, cores, n, txt_paths_chunks, p_queue,
                   par_return, pc_par, notPar>>

\* line 146: every result is in; the lists are chained
ParReturn ==
    /\ pc_par = "mapping"
    /\ \A k \in 1..Len(p_results) : p_results[k].ready
    /\ par_return' = Chain([k \in 1..Len(p_results) |-> p_results[k].value])
    /\ pc_par' = "returned"
    /\ UNCHANGED <<par_txt_paths, cores, n, txt_paths_chunks, p_queue, p_task,
                   p_results, notPar>>

InitParallel ==
    /\ ParInit /\ InvIdle /\ OcrIdle /\ LsIdle /\ BowIdle /\ InsIdle
    /\ SimIdle

NextParallel ==
    \/ ParChunk
    \/ ParMap
    \/ \E w \in Workers : ParWorkerGet(w)
    \/ \E w \in Workers : ParWorkerPut(w)
    \/ ParReturn

SpecParallel == InitParallel /\ [][NextParallel]_vars

\* C2: for every list of text paths and every core count,
\* parallel_corpus_lemmatization ends by returning the list the sequential
\* lemmatize_corpus gives for the whole list (element i the normalisation of
\* path i), having split the list into contiguous chunks whose concatenation
\* is the list.
C2_ParallelEqualsSequential ==
    pc_par \in {"returned", "raised"} =>
        /\ pc_par = "returned"
        /\ Chain(txt_paths_chunks) = par_txt_paths
        /\ Len(par_return) = Len(par_txt_paths)
        /\ \A i \in 1..Len(par_txt_paths) :
             par_return[i] = LemmatizeString(FileText(par_txt_paths[i]),
                                             STOPWORDS)

\* what the code keeps of C2: a call that returns gives the sequential list
C2_ReturnedIsSequential ==
    pc_par = "returned" =>
        /\ Chain(txt_paths_chunks) = par_txt_paths
        /\ par_return = LemmatizeCorpus(par_txt_paths)

----------------------------------------------------------------------------
(* bow_and_dict: lines 149-163, with gensim's Dictionary *)

\* the most documents of a lemmatized corpus
MaxDocs == 3

\* the largest no_below handed to bow_and_dict
MaxNoBelow == 2

\* the lemmatized documents a corpus is made of
CorpusDocs ==
    { <<>>,
      <<"a">>,
      <<"a", " ", "b">>,
      <<"b", " ", "c", " ", "b">> }

\* the no_above fractions handed to bow_and_dict, in tenths: 0.5, 0.8, 1.0
NoAboveTenths == {5, 8, 10}

\* the order of the characters of the tokens
CharRank(c) == CASE c = "a" -> 1 [] c = "b" -> 2 [] c = "c" -> 3 [] OTHER -> 4

\* x < y for two strings
RECURSIVE StrLess(_, _)
StrLess(x, y) ==
    IF x = <<>> THEN y # <<>>
    ELSE IF y = <<>> THEN FALSE
    ELSE IF x[1] = y[1] THEN StrLess(Tail(x), Tail(y))
    ELSE CharRank(x[1]) < CharRank(y[1])

\* sorted(S) for a set of strings
RECURSIVE SortedTokens(_)
SortedTokens(S) ==
    IF S = {} THEN <<>>
    ELSE LET m == CHOOSE x \in S : \A y \in S \ {x} : StrLess(x, y)
         IN  <<m>> \o SortedTokens(S \ {m})

\* sorted(S) for a set of integers
RECURSIVE SortedInts(_)
SortedInts(S) ==
    IF S = {} THEN <<>>
    ELSE LET m == CHOOSE x \in S : \A y \in S : x <= y
         IN  <<m>> \o SortedInts(S \ {m})

\* the position of x in the list q that holds it
IndexOf(q, x) == CHOOSE i \in 1..Len(q) : q[i] = x

\* the number of times token t stands in the token list text
Count(text, t) == Cardinality({i \in 1..Len(text) : text[i] = t})

\* Dictionary.doc2bow(document, allow_update=True), the dictionary's part:
\* the tokens not yet known get the next ids, in sorted order
AddTokens(t2i, text) ==
    LET missing == SortedTokens(Range(text) \ DOMAIN t2i)
    IN  [t \in DOMAIN t2i \cup Range(missing) |->
            IF t \in DOMAIN t2i THEN t2i[t]
            ELSE Cardinality(DOMAIN t2i) + IndexOf(missing, t) - 1]

\* the document frequencies after one more document
AddDfs(t2i, d, text) ==
    [id \in {t2i[t] : t \in DOMAIN t2i} |->
        LET old == IF id \in DOMAIN d THEN d[id] ELSE 0
        IN  IF \E t \in Range(text) : t2i[t] = id THEN old + 1 ELSE old]

\* a doc2bow that gives a token the dictionary does not hold the id -1
Doc2BowKeepsUnknown(t2i, text) ==
    LET id(t) == IF t \in DOMAIN t2i THEN t2i[t] ELSE -1
        ids == SortedInts({id(t) : t \in Range(text)})
    IN  [k \in 1..Len(ids) |->
            <<ids[k],
              Cardinality({i \in 1..Len(text) : id(text[i]) = ids[k]})>>]

\* Dictionary.doc2bow(document): the sorted (id, count) pairs of the tokens
\* the dictionary holds; the other tokens are left out
Doc2Bow(t2i, text) ==
    LET known == Range(text) \cap DOMAIN t2i
        ids == SortedInts({t2i[t] : t \in known})
    IN  [k \in 1..Len(ids) |->
            LET t == CHOOSE u \in known : t2i[u] = ids[k]
            IN  <<ids[k], Count(text, t)>>]

\* the fraction filter_extremes works with: line 160 hands it no_below only,
\* so it is filter_extremes' own default of 0.5, whatever the caller's
\* no_above
NoAboveUsed(above) == 5

\* the ids filter_extremes keeps: no_below <= dfs <= int(no_above * num_docs)
\* (at most keep_n = 100000 of them, more than any dictionary here holds)
GoodIds(t2i, d, docs, below, above) ==
    LET no_above_abs == (NoAboveUsed(above) * docs) \div 10
    IN  {id \in DOMAIN d : below <= d[id] /\ d[id] <= no_above_abs}

\* Dictionary.compactify after filter_tokens: the kept ids, renumbered from
\* 0 in their order
Compactify(t2i, good) ==
    LET olds == SortedInts(good)
    IN  [t \in {u \in DOMAIN t2i : t2i[u] \in good} |->
            IndexOf(olds, t2i[t]) - 1]

BowInit ==
    /\ lemmatized_corpus \in Strings(CorpusDocs, MaxDocs)
    /\ no_below \in 0..MaxNoBelow
    /\ no_above \in NoAboveTenths
    /\ doc_tokens = <<>>
    /\ token2id = <<>>
    /\ dfs = <<>>
    /\ num_docs = 0
    /\ bow_corpus = <<>>
    /\ pc_bow = "start"

\* line 156
BowTokenize ==
    /\ pc_bow = "start"
    /\ doc_tokens' = [i \in 1..Len(lemmatized_corpus) |->
                         Split(lemmatized_corpus[i])]
    /\ pc_bow' = "dictionary"
    /\ UNCHANGED <<lemmatized_corpus, no_below, no_above, token2id, dfs,
                   num_docs, bow_corpus, notBow>>

\* line 157: corpora.Dictionary(doc_tokens) takes in the next document
BowAddDocument ==
    /\ pc_bow = "dictionary"
    /\ num_docs < Len(doc_tokens)
    /\ LET text == doc_tokens[num_docs + 1]
       IN  /\ token2id' = AddTokens(token2id, text)
           /\ dfs' = AddDfs(token2id', dfs, text)
    /\ num_docs' = num_docs + 1
    /\ UNCHANGED <<lemmatized_corpus, no_below, no_above, doc_tokens,
                   bow_corpus, pc_bow, notBow>>

\* line 160: dictionary.filter_extremes(no_below=no_below)
BowFilterExtremes ==
    /\ pc_bow = "dictionary"
    /\ num_docs = Len(doc_tokens)
    /\ LET good == GoodIds(token2id, dfs, num_docs, no_below, no_above)
           t2i == Compactify(token2id, good)
       IN  /\ token2id' = t2i
           /\ dfs' = [id \in {t2i[t] : t \in DOMAIN t2i} |->
                         dfs[token2id[CHOOSE t \in DOMAIN t2i : t2i[t] = id]]]
    /\ pc_bow' = "encoding"
    /\ UNCHANGED <<lemmatized_corpus, no_below, no_above, doc_tokens,
                   num_docs, bow_corpus, notBow>>

\* line 161: the next document is encoded
BowEncode ==
    /\ pc_bow = "encoding"
    /\ Len(bow_corpus) < Len(doc_tokens)
    /\ bow_corpus' = Append(bow_corpus,
                            Doc2Bow(token2id, doc_tokens[Len(bow_corpus) + 1]))
    /\ UNCHANGED <<lemmatized_corpus, no_below, no_above, doc_tokens,
                   token2id, dfs, num_docs, pc_bow, notBow>>

\* line 163
BowReturn ==
    /\ pc_bow = "encoding"
    /\ Len(bow_corpus) = Len(doc_tokens)
    /\ pc_bow' = "returned"
    /\ UNCHANGED <<lemmatized_corpus, no_below, no_above, doc_tokens,
                   token2id, dfs, num_docs, bow_corpus, notBow>>

InitBow ==
    /\ BowInit /\ InvIdle /\ OcrIdle /\ LsIdle /\ ParIdle /\ InsIdle
    /\ SimIdle

NextBow ==
    \/ BowTokenize
    \/ BowAddDocument
    \/ BowFilterExtremes
    \/ BowEncode
    \/ BowReturn

SpecBow == InitBow /\ [][NextBow]_vars

\* the ids of the returned dictionary
DictionaryIds == {token2id[t] : t \in DOMAIN token2id}

\* the number of documents of the corpus that hold token t
DocFrequency(t) ==
    Cardinality({i \in 1..Len(lemmatized_corpus) :
                    t \in Range(Split(lemmatized_corpus[i]))})

\* the tokens of the corpus
CorpusTokens ==
    UNION {Range(Split(lemmatized_corpus[i])) :
              i \in 1..Len(lemmatized_corpus)}

\* C5: bow_and_dict returns one vector per document, in the documents'
\* order: vector i holds, for exactly the tokens of document i that the
\* returned dictionary holds, the token's id once, with the number of times
\* the token stands in document i; so every id of a vector is an id of the
\* returned dictionary.
C5_BowPerDocument ==
    pc_bow = "returned" =>
        /\ Len(bow_corpus) = Len(lemmatized_corpus)
        /\ \A i \in 1..Len(bow_corpus) :
             LET text == Split(lemmatized_corpus[i])
                 vec == bow_corpus[i]
             IN  /\ \A k \in 1..Len(vec) : vec[k][1] \in DictionaryIds
                 /\ \A k, l \in 1..Len(vec) : vec[k][1] = vec[l][1] => k = l
                 /\ \A k \in 1..Len(vec) :
                      \E t \in Range(text) \cap DOMAIN token2id :
                          /\ token2id[t] = vec[k][1]
                          /\ vec[k][2] = Count(text, t)
                 /\ \A t \in Range(text) \cap DOMAIN token2id :
                      \E k \in 1..Len(vec) : vec[k][1] = token2id[t]

\* a corpus of three documents was encoded, the first vector holding two
\* ids and a later document losing a token the dictionary dropped
C5_Witness ==
    /\ pc_bow = "returned"
    /\ Len(bow_corpus) = 3
    /\ Len(bow_corpus[1]) = 2
    /\ \E i \in 1..3 :
         Len(bow_corpus[i]) < Cardinality(Range(Split(lemmatized_corpus[i])))

\* C6: the returned dictionary holds exactly the tokens of the corpus whose
\* document frequency lies in [no_below, no_above * corpus_size], for the
\* no_below and the no_above the caller handed to bow_and_dict.
C6_DictionaryInCallerRange ==
    pc_bow = "returned" =>
        DOMAIN token2id =
            {t \in CorpusTokens :
                /\ no_below <= DocFrequency(t)
                /\ 10 * DocFrequency(t) <= no_above * Len(lemmatized_corpus)}

\* what the code keeps of C6: the range's upper end is half the corpus
C6_DictionaryInDefaultRange ==
    pc_bow = "returned" =>
        DOMAIN token2id =
            {t \in CorpusTokens :
                /\ no_below <= DocFrequency(t)
                /\ 2 * DocFrequency(t) <= Len(lemmatized_corpus)}

----------------------------------------------------------------------------
(* inspect_classification: lines 166-180, and its caller: lines 240-245 *)

\* the most documents of the inspected corpus
MaxInsDocs == 2

\* the most topics of the trained model
MaxTopics == 2

\* the probabilities the model gives a topic for a document, as ranks; a
\* topic of rank 0 is below the model's minimum and left out of model[doc]
ProbLevels == {0, 1, 2}

\* the text paths of the inspected corpus, in the order of the corpus
InsPathList ==
    << <<"d", "/", "c", ".", "t", "x", "t">>,
       <<"e", "/", "c", ".", "t", "x", "t">>,
       <<"e", "/", "n", ".", "t", "x", "t">>,
       <<"f", "/", "c", ".", "t", "x", "t">> >>

\* model[doc]: the (topic, probability) pairs of the topics the model
\* reports for the document, in the topics' order
ModelOfDoc(probs, topics) ==
    LET shown == SortedInts({t \in 0..(topics - 1) : probs[t] > 0})
    IN  [k \in 1..Len(shown) |-> <<shown[k], probs[shown[k]]>>]

\* the topic of the last of the pairs of highest probability
TopTopicLastOfTies(pairs) ==
    LET k == CHOOSE i \in 1..Len(pairs) :
                 /\ \A j \in 1..Len(pairs) : pairs[j][2] <= pairs[i][2]
                 /\ \A j \in (i + 1)..Len(pairs) : pairs[j][2] < pairs[i][2]
    IN  pairs[k][1]

\* sorted(pairs, key=lambda x: x[1], reverse=True)[0][0]: the sort is stable,
\* so the first of the pairs of highest probability stands first
TopTopic(pairs) ==
    LET k == CHOOSE i \in 1..Len(pairs) :
                 /\ \A j \in 1..Len(pairs) : pairs[j][2] <= pairs[i][2]
                 /\ \A j \in 1..(i - 1) : pairs[j][2] < pairs[i][2]
    IN  pairs[k][1]

\* path[:-3] + 'tif'
ToTifPath(path) == DropLast(path, 3) \o <<"t", "i", "f">>

InsInit ==
    /\ num_topics \in 1..MaxTopics
    /\ \E docs \in 0..MaxInsDocs :
         /\ ins_txt_paths = SubSeq(InsPathList, 1, docs)
         /\ doc_topics \in [1..docs -> [0..(num_topics - 1) -> ProbLevels]]
    /\ \A i \in 1..Len(doc_topics) :
         \E t \in 0..(num_topics - 1) : doc_topics[i][t] > 0
    /\ topic = 0 /\ topic_arg = 0
    /\ top_topics_lst = [t \in 0..(num_topics - 1) |-> <<>>]
    /\ file_num = 0 /\ next_topic = 0
    /\ inspection_lst = <<>> /\ ins_return = <<>>
    /\ d_topic = 0 /\ call_no = 0
    /\ first_list = <<>> /\ insp_cnt = <<>>
    /\ pc_ins = "driver"

\* entering inspect_classification(bow_corpus, lda, arg): line 172
EnterCall(arg) ==
    /\ topic' = arg
    /\ topic_arg' = arg
    /\ top_topics_lst' = [t \in 0..(num_topics - 1) |-> <<>>]
    /\ file_num' = 0
    /\ next_topic' = 0
    /\ inspection_lst' = <<>>
    /\ pc_ins' = "grouping"

\* lines 241-243: the next topic of the caller's loop; the first of the two
\* calls of its tuple starts
DriverCall ==
    /\ pc_ins = "driver"
    /\ d_topic < num_topics
    /\ call_no' = 1
    /\ EnterCall(d_topic)
    /\ UNCHANGED <<ins_txt_paths, num_topics, doc_topics, ins_return, d_topic,
                   first_list, insp_cnt, notIns>>

\* lines 173-174: the next document goes to the list of its top topic
GroupDocument ==
    /\ pc_ins = "grouping"
    /\ file_num < Len(doc_topics)
    /\ LET top == TopTopic(ModelOfDoc(doc_topics[file_num + 1], num_topics))
       IN  top_topics_lst' =
               [top_topics_lst EXCEPT ![top] = Append(@, file_num)]
    /\ file_num' = file_num + 1
    /\ UNCHANGED <<ins_txt_paths, num_topics, doc_topics, topic, topic_arg,
                   next_topic, inspection_lst, ins_return, d_topic, call_no,
                   first_list, insp_cnt, pc_ins, notIns>>

\* line 173: the documents are exhausted
GroupEnd ==
    /\ pc_ins = "grouping"
    /\ file_num = Len(doc_topics)
    /\ pc_ins' = "topics"
    /\ UNCHANGED <<ins_txt_paths, num_topics, doc_topics, topic, topic_arg,
                   top_topics_lst, file_num, next_topic, inspection_lst,
                   ins_return, d_topic, call_no, first_list, insp_cnt, notIns>>

\* lines 176-178: the loop assigns its next value to topic, the parameter's
\* name, and builds that topic's list anew; numpy refuses the index array of
\* an empty list of documents (np.array([]) is an array of floats) with
\* IndexError
TopicIteration ==
    /\ pc_ins = "topics"
    /\ next_topic < num_topics
    /\ topic' = next_topic
    /\ next_topic' = next_topic + 1
    /\ LET idx == top_topics_lst[topic']
       IN  IF idx = <<>>
           THEN /\ pc_ins' = "raised"
                /\ UNCHANGED inspection_lst
           ELSE /\ inspection_lst' =
                       [k \in 1..Len(idx) |->
                           ToTifPath(ins_txt_paths[idx[k] + 1])]
                /\ UNCHANGED pc_ins
    /\ UNCHANGED <<ins_txt_paths, num_topics, doc_topics, topic_arg,
                   top_topics_lst, file_num, ins_return, d_topic, call_no,
                   first_list, insp_cnt, notIns>>

\* line 180
CallReturn ==
    /\ pc_ins = "topics"
    /\ next_topic = num_topics
    /\ ins_return' = inspection_lst
    /\ pc_ins' = "returned"
    /\ UNCHANGED <<ins_txt_paths, num_topics, doc_topics, topic, topic_arg,
                   top_topics_lst, file_num, next_topic, inspection_lst,
                   d_topic, call_no, first_list, insp_cnt, notIns>>

\* line 243: the first call's list is kept and the second call, inside len,
\* starts
DriverSecondCall ==
    /\ pc_ins = "returned"
    /\ call_no = 1
    /\ first_list' = ins_return
    /\ call_no' = 2
    /\ EnterCall(d_topic)
    /\ UNCHANGED <<ins_txt_paths, num_topics, doc_topics, ins_return, d_topic,
                   insp_cnt, notIns>>

\* line 243: the pair (list, length) is appended
DriverAppend ==
    /\ pc_ins = "returned"
    /\ call_no = 2
    /\ insp_cnt' = Append(insp_cnt, <<first_list, Len(ins_return)>>)
    /\ d_topic' = d_topic + 1
    /\ pc_ins' = "driver"
    /\ UNCHANGED <<ins_txt_paths, num_topics, doc_topics, topic, topic_arg,
                   top_topics_lst, file_num, next_topic, inspection_lst,
                   ins_return, call_no, first_list, notIns>>

\* lines 244-245: except: pass
DriverExcept ==
    /\ pc_ins = "raised"
    /\ d_topic' = d_topic + 1
    /\ pc_ins' = "driver"
    /\ UNCHANGED <<ins_txt_paths, num_topics, doc_topics, topic, topic_arg,
                   top_topics_lst, file_num, next_topic, inspection_lst,
                   ins_return, call_no, first_list, insp_cnt, notIns>>

\* line 241: the caller's loop is over
DriverEnd ==
    /\ pc_ins = "driver"
    /\ d_topic = num_topics
    /\ pc_ins' = "done"
    /\ UNCHANGED <<ins_txt_paths, num_topics, doc_topics, topic, topic_arg,
                   top_topics_lst, file_num, next_topic, inspection_lst,
                   ins_return, d_topic, call_no, first_list, insp_cnt, notIns>>

InitInspect ==
    /\ InsInit /\ InvIdle /\ OcrIdle /\ LsIdle /\ ParIdle /\ BowIdle
    /\ SimIdle

NextInspect ==
    \/ DriverCall
    \/ GroupDocument
    \/ GroupEnd
    \/ TopicIteration
    \/ CallReturn
    \/ DriverSecondCall
    \/ DriverAppend
    \/ DriverExcept
    \/ DriverEnd

SpecInspect == InitInspect /\ [][NextInspect]_vars

\* the topic of highest probability of document i (from 1); of several
\* such, the one of lowest number
BestTopic(i) ==
    CHOOSE t \in 0..(num_topics - 1) :
        /\ \A u \in 0..(num_topics - 1) : doc_topics[i][u] <= doc_topics[i][t]
        /\ \A u \in 0..(t - 1) : doc_topics[i][u] < doc_topics[i][t]

\* the image paths of the documents whose best topic is t, in the corpus'
\* order
RECURSIVE TifPathsOfTopic(_, _)
TifPathsOfTopic(t, upto) ==
    IF upto = 0 THEN <<>>
    ELSE LET before == TifPathsOfTopic(t, upto - 1)
         IN  IF BestTopic(upto) = t
             THEN Append(before,
                         DropLast(ins_txt_paths[upto], 3) \o <<"t", "i", "f">>)
             ELSE before

InspectionListOf(t) == TifPathsOfTopic(t, Len(ins_txt_paths))

\* C7: a call inspect_classification(bow_corpus, model, t) that returns,
\* returns the image paths of exactly the documents whose highest-probability
\* topic is t.
C7_ReturnsListOfArgument ==
    pc_ins = "returned" => ins_return = InspectionListOf(topic_arg)

\* C10 as claimed: every call, whatever its topic argument, returns the
\* inspection list of the last topic, and the caller's loop collects that
\* list and its length once per topic.
C10_AlwaysReturnsLastList ==
    /\ pc_ins \in {"returned", "raised"} =>
         /\ pc_ins = "returned"
         /\ ins_return = InspectionListOf(num_topics - 1)
    /\ pc_ins = "done" =>
         /\ Len(insp_cnt) = num_topics
         /\ \A k \in 1..Len(insp_cnt) :
              insp_cnt[k] = <<InspectionListOf(num_topics - 1),
                              Len(InspectionListOf(num_topics - 1))>>

\* C10 as amended: a call that returns gives the inspection list of the last
\* topic whatever its topic argument; it returns exactly when every topic
\* has a document and raises otherwise, for every argument alike; so the
\* caller's loop collects the last topic's list and its length for every
\* topic, or nothing for any.
C10_ReturnIgnoresArgument ==
    LET last == InspectionListOf(num_topics - 1)
        full == \A t \in 0..(num_topics - 1) : InspectionListOf(t) # <<>>
    IN  /\ pc_ins = "returned" => (full /\ ins_return = last)
        /\ pc_ins = "raised" => ~full
        /\ \A k \in 1..Len(insp_cnt) : insp_cnt[k] = <<last, Len(last)>>
        /\ pc_ins = "done" =>
             Len(insp_cnt) = (IF full THEN num_topics ELSE 0)

\* the caller's loop has ended with one pair per topic, all of them the
\* last topic's, although the first topic's own list is another one
C10_Witness ==
    /\ pc_ins = "done"
    /\ num_topics >= 2
    /\ Len(insp_cnt) = num_topics
    /\ InspectionListOf(0) # InspectionListOf(num_topics - 1)
    /\ insp_cnt[1][1] = InspectionListOf(num_topics - 1)

----------------------------------------------------------------------------
(* doc_sim: lines 196-214 *)

\* the most documents of the compared corpus
MaxSimDocs == 6

\* desc_idx_5 = np.argsort(sim)[::-1][:5]
TopCount == 5

\* the cosine similarities, as ranks: 0 for 0.0 and 2 for 1.0
SimLevels == {0, 1, 2}

\* the text paths of the compared corpus
SimPathList ==
    << <<"d", "/", "c", ".", "t", "x", "t">>,
       <<"e", "/", "c", ".", "t", "x", "t">>,
       <<"e", "/", "n", ".", "t", "x", "t">>,
       <<"f", "/", "c", ".", "t", "x", "t">>,
       <<"f", "/", "n", ".", "t", "x", "t">>,
       <<"g", "/", "c", ".", "t", "x", "t">>,
       <<"g", "/", "n", ".", "t", "x", "t">> >>

\* the orders of the indices of S along which the values of row do not
\* fall: one of the indices of the lowest value, then the rest
RECURSIVE AscendingOrders(_, _)
AscendingOrders(row, S) ==
    IF S = {} THEN {<<>>}
    ELSE UNION { {<<i>> \o rest : rest \in AscendingOrders(row, S \ {i})} :
                   i \in {j \in S : \A k \in S : row[j + 1] <= row[k + 1]} }

\* the orders np.argsort may give: every permutation of the indices (from
\* 0) along which the values do not fall; equal values stand in an order the
\* sort does not promise
Argsorts(row) == AscendingOrders(row, 0..(Len(row) - 1))

\* a[::-1]
Reversed(a) == [i \in 1..Len(a) |-> a[Len(a) + 1 - i]]

\* a[:k]
FirstOf(a, k) == SubSeq(a, 1, IF k < Len(a) THEN k ELSE Len(a))

\* path[:-4] + '.tif'
ToDotTifPath(p) == DropLast(p, 4) \o DotTif

\* the rows cosine_similarity gives for the query's row: no similarity is
\* above the query's own, which is 1.0
SimInit ==
    /\ \E docs \in 1..MaxSimDocs :
         /\ ds_txt_paths = SubSeq(SimPathList, 1, docs)
         /\ sim \in [1..docs -> SimLevels]
    /\ ds_path \in Range(ds_txt_paths)
    /\ sim[IndexOf(ds_txt_paths, ds_path)] = 2
    /\ txt_idx = 0
    /\ argsort = <<>> /\ desc_idx_5 = <<>> /\ sim_tif_paths = <<>>
    /\ show_pos = 0
    /\ pc_sim = "start"

\* lines 203-205: np.where(txt_arr == path)[0][0], the first index of the query path
SimLocate ==
    /\ pc_sim = "start"
    /\ txt_idx' = IndexOf(ds_txt_paths, ds_path) - 1
    /\ pc_sim' = "located"
    /\ UNCHANGED <<ds_txt_paths, ds_path, sim, argsort, desc_idx_5,
                   sim_tif_paths, show_pos, notSim>>

\* line 206: np.argsort(sim)
SimArgsort ==
    /\ pc_sim = "located"
    /\ argsort' \in Argsorts(sim)
    /\ pc_sim' = "sorted"
    /\ UNCHANGED <<ds_txt_paths, ds_path, txt_idx, sim, desc_idx_5,
                   sim_tif_paths, show_pos, notSim>>

\* lines 206-208: [::-1][:5], and the image paths of the indices
SimTop ==
    /\ pc_sim = "sorted"
    /\ desc_idx_5' = FirstOf(Reversed(argsort), TopCount)
    /\ sim_tif_paths' = [k \in 1..Len(desc_idx_5') |->
                            ToDotTifPath(ds_txt_paths[desc_idx_5'[k] + 1])]
    /\ pc_sim' = "showing"
    /\ UNCHANGED <<ds_txt_paths, ds_path, txt_idx, sim, argsort, show_pos,
                   notSim>>

\* lines 209-214: the next image is opened and shown; a failure is
\* swallowed, so both outcomes leave the same state
SimShow ==
    /\ pc_sim = "showing"
    /\ show_pos < Len(sim_tif_paths)
    /\ show_pos' = show_pos + 1
    /\ UNCHANGED <<ds_txt_paths, ds_path, txt_idx, sim, argsort, desc_idx_5,
                   sim_tif_paths, pc_sim, notSim>>

\* line 209: the images are exhausted
SimEnd ==
    /\ pc_sim = "showing"
    /\ show_pos = Len(sim_tif_paths)
    /\ pc_sim' = "returned"
    /\ UNCHANGED <<ds_txt_paths, ds_path, txt_idx, sim, argsort, desc_idx_5,
                   sim_tif_paths, show_pos, notSim>>

InitSim ==
    /\ SimInit /\ InvIdle /\ OcrIdle /\ LsIdle /\ ParIdle /\ BowIdle
    /\ InsIdle

NextSim == SimLocate \/ SimArgsort \/ SimTop \/ SimShow \/ SimEnd

SpecSim == InitSim /\ [][NextSim]_vars

\* the number of documents doc_sim is to select
Selected == IF Len(sim) < 5 THEN Len(sim) ELSE 5

\* what the code keeps of C8: the selection holds the 5 documents (all of
\* them when fewer exist) of highest similarity, in descending order
C8_TopFiveDescending ==
    pc_sim = "returned" =>
        /\ Len(desc_idx_5) = Selected
        /\ \A k, l \in 1..Len(desc_idx_5) : k # l => desc_idx_5[k] # desc_idx_5[l]
        /\ \A k \in 1..(Len(desc_idx_5) - 1) :
             sim[desc_idx_5[k] + 1] >= sim[desc_idx_5[k + 1] + 1]
        /\ \A i \in 0..(Len(sim) - 1) :
             i \notin Range(desc_idx_5) =>
                 \A k \in 1..Len(desc_idx_5) : sim[i + 1] <= sim[desc_idx_5[k] + 1]

\* C8: doc_sim selects the 5 documents (all of them when fewer exist) of
\* highest similarity to the query, in descending order of similarity, and
\* the query document itself is among them and stands first, also when
\* other documents tie with it.
C8_QueryRankedFirst ==
    pc_sim = "returned" =>
        /\ C8_TopFiveDescending
        /\ txt_idx \in Range(desc_idx_5)
        /\ desc_idx_5[1] = txt_idx

=============================================================================
